---- MODULE Spec2Model ----
(***************************************************************************)
(* Model of cipher/src/lib.rs: the ECIES-style message encryption          *)
(* (ephemeral ECDH on the secp256k1 equation, HKDF, ChaCha20-Poly1305)     *)
(* and the EncryptedMessage envelope codec (to_bytes / from_bytes /        *)
(* to_hex / from_hex).                                                     *)
(*                                                                         *)
(* The envelope codec is modelled byte for byte.  The cryptographic        *)
(* primitives come from external crates (k256, secp256k1, hkdf,            *)
(* chacha20poly1305, hex); they are modelled by what they compute, at a    *)
(* reduced scale:                                                          *)
(*   - the curve is y^2 = x^3 + 7 (the secp256k1 equation) over the field  *)
(*     of P = 13 elements; its group has prime order N = 7, so every       *)
(*     nonzero scalar is a valid secret key and every point a generator;   *)
(*   - field elements are still serialized as 32 big-endian bytes;         *)
(*   - HKDF is an injective map from the shared x-coordinate to a key;     *)
(*   - ChaCha20 is a keystream XORed bytewise onto the plaintext;          *)
(*   - Poly1305 is a 16-byte authenticator of (key, nonce, ciphertext)     *)
(*     that never collides for two different keys, two different nonces,   *)
(*     or two ciphertext bodies that differ in a single bit (the           *)
(*     idealisation "no forgery").                                         *)
(***************************************************************************)
EXTENDS Integers, Sequences, FiniteSets, TLC

VARIABLES
    sk,         \* the recipient's secret scalar (test: receiver_sk)
    address,    \* payload of the address encrypt_message is called with
    held,       \* the secret scalar handed to the decrypt functions
    rng,        \* what OsRng yields: [e: ephemeral scalar, nonce: 12 bytes]
    pc,         \* position of the run
    origin,     \* where the envelope / the bytes came from
    message,    \* the plaintext given to encrypt_message (UTF-8 bytes)
    env,        \* result of encrypt_message, or of EncryptedMessage::new
    wire,       \* serialized envelope bytes
    hexs,       \* hex transport string (sequence of characters)
    tamper,     \* what happened to the transport: [kind, at]
    via,        \* which decoder produced `decoded`
    decoded,    \* result of from_bytes / from_hex
    result      \* result of decrypt_message / decrypt_with_secret_key

vars == <<sk, address, held, rng, pc, origin, message, env, wire, hexs,
          tamper, via, decoded, result>>

----------------------------------------------------------------------------
(* Bounds of the model *)

\* longest plaintext, in UTF-8 bytes
MaxMsgLen == 2
\* longest externally supplied byte string given to from_bytes
MaxWireLen == 46
\* longest ciphertext of an envelope built with EncryptedMessage::new
MaxCtLen == 1

----------------------------------------------------------------------------
(* Program constants *)

\* nonce: 12 bytes (bytes[0..12])
NONCE_LEN == 12
\* Poly1305 tag appended by ChaCha20Poly1305::encrypt
TAG_LEN == 16
\* byte width of a serialized field element (x-only key, SEC1 x-coordinate)
FIELD_LEN == 32
\* field prime of the (scaled-down) curve
P == 13
\* order of the curve group
N == 7
\* curve equation y^2 = x^3 + B
B == 7

\* generator of the group
G == <<7, 8>>
\* the point at infinity
Inf == <<>>

Scalars == 1..(N - 1)

----------------------------------------------------------------------------
(* Results: Rust's Result<T, JsError>, plus a panic (unwrap, slice index)   *)

Ok(v) == [kind |-> "ok", val |-> v]
Err(m) == [kind |-> "err", val |-> m]
Panic(m) == [kind |-> "panic", val |-> m]
None == [kind |-> "none", val |-> <<>>]

\* the message of decrypt's Err(_) arm on a failed AEAD open
AuthenticationError == "Decryption failed - incorrect key or corrupted data"

----------------------------------------------------------------------------
(* Bytes and bits *)

RECURSIVE Pow2(_)
Pow2(k) == IF k = 0 THEN 1 ELSE 2 * Pow2(k - 1)

Bit(b, k) == (b \div Pow2(k)) % 2

\* b with bit k inverted
FlipBitOf(b, k) == IF Bit(b, k) = 1 THEN b - Pow2(k) ELSE b + Pow2(k)

RECURSIVE XorFrom(_, _, _)
XorFrom(a, b, k) ==
    IF k = 8 THEN 0
    ELSE (IF Bit(a, k) # Bit(b, k) THEN Pow2(k) ELSE 0) + XorFrom(a, b, k + 1)

\* bitwise exclusive or of two bytes
Xor(a, b) == XorFrom(a, b, 0)

----------------------------------------------------------------------------
(* The curve group (k256 / secp256k1 crates) *)

\* x reduced into 0..P-1
Mod(x) == ((x % P) + P) % P

\* multiplicative inverse in the field
FieldInv(a) == CHOOSE z \in 1..(P - 1) : Mod(z * a) = 1

\* right-hand side of the curve equation
CurveRhs(x) == Mod(x * x * x + B)

\* x is the x-coordinate of a curve point
IsOnCurveX(x) == \E y \in 0..(P - 1) : Mod(y * y) = CurveRhs(x)

PointAdd(p1, p2) ==
    IF p1 = Inf THEN p2
    ELSE IF p2 = Inf THEN p1
    ELSE IF p1[1] = p2[1] /\ Mod(p1[2] + p2[2]) = 0 THEN Inf
    ELSE LET lam == IF p1 = p2
                    THEN Mod(3 * p1[1] * p1[1] * FieldInv(Mod(2 * p1[2])))
                    ELSE Mod((p2[2] - p1[2]) * FieldInv(Mod(p2[1] - p1[1])))
             x3 == Mod(lam * lam - p1[1] - p2[1])
         IN <<x3, Mod(lam * (p1[1] - x3) - p1[2])>>

RECURSIVE ScalarMul(_, _)
ScalarMul(k, pt) == IF k = 0 THEN Inf ELSE PointAdd(pt, ScalarMul(k - 1, pt))

\* SecretKey::public_key / PublicKey::from(&ephemeral_secret)
PublicKeyOf(s) == ScalarMul(s, G)

\* SecretKey::from_slice accepts exactly the scalars 1..N-1
IsValidSecret(s) == s \in Scalars

\* XOnlyPublicKey::from_slice: the payload must be the x of a curve point
XOnlyFromSlice(payload) ==
    IF payload \in 0..(P - 1) /\ IsOnCurveX(payload) THEN Ok(payload)
    ELSE Err("malformed public key")

\* SecpPublicKey::from_x_only_public_key(x, Parity::Even)
from_x_only_public_key_even(x) ==
    <<x, CHOOSE y \in 0..(P - 1) : Mod(y * y) = CurveRhs(x) /\ y % 2 = 0>>

\* a field element as FIELD_LEN big-endian bytes (every element is < 256)
FieldBytes(x) == [i \in 1..FIELD_LEN |-> IF i = FIELD_LEN THEN x ELSE 0]

\* the field element a big-endian byte string denotes, or -1 when it is not
\* below the field prime
FieldFromBytes(bs) ==
    IF (\A i \in 1..(Len(bs) - 1) : bs[i] = 0) /\ bs[Len(bs)] < P
    THEN bs[Len(bs)] ELSE 0 - 1

\* variant: the x-only encoding, without the parity tag
to_sec1_bytes_xonly(pt) == FieldBytes(pt[1])

\* PublicKey::to_sec1_bytes: SEC1 compressed, 0x02 (even y) / 0x03 (odd y) || x
to_sec1_bytes(pt) == <<IF pt[2] % 2 = 0 THEN 2 ELSE 3>> \o FieldBytes(pt[1])

\* PublicKey::from_sec1_bytes on a compressed encoding; any other length or
\* tag, or an x off the curve, is an error (an uncompressed 65-byte encoding
\* never arises: from_bytes yields at most 33 key bytes)
from_sec1_bytes(bs) ==
    IF Len(bs) = FIELD_LEN + 1 /\ bs[1] \in {2, 3}
    THEN LET x == FieldFromBytes(SubSeq(bs, 2, Len(bs)))
         IN IF x >= 0 /\ IsOnCurveX(x)
            THEN Ok(<<x, CHOOSE y \in 0..(P - 1) :
                            Mod(y * y) = CurveRhs(x) /\ y % 2 = bs[1] - 2>>)
            ELSE Err("invalid point")
    ELSE Err("invalid encoding")

\* wallet_pk.to_address: the address payload is the x-only public key
AddressOf(s) == PublicKeyOf(s)[1]

\* variant: the shared secret taken from the y-coordinate of scalar * point
diffie_hellman_y(s, pt) == ScalarMul(s, pt)[2]

\* ecdh: the shared secret is the x-coordinate of scalar * point
diffie_hellman(s, pt) == ScalarMul(s, pt)[1]

----------------------------------------------------------------------------
(* Key derivation and the AEAD (hkdf / chacha20poly1305 crates) *)

\* shared_secret.extract::<Sha256>(None) then expand(b"", 32 bytes): an
\* injective map of the shared secret to a key (keys are below 64)
hkdf_extract_expand(shared) == (shared * 5 + 3) % 64

RECURSIVE SumSeq(_)
SumSeq(s) == IF s = <<>> THEN 0 ELSE (Head(s) + SumSeq(Tail(s))) % 256

\* ChaCha20 keystream byte i under (key, nonce)
KeyStream(key, nonce, i) == (key * 37 + SumSeq(nonce) * 11 + i * 29 + 101) % 256

\* the keystream XORed onto a byte string (encrypts and decrypts)
ApplyKeyStream(key, nonce, bs) ==
    [i \in 1..Len(bs) |-> Xor(bs[i], KeyStream(key, nonce, i))]

\* exclusive or of the bytes at positions i, i + 3, i + 6, ...
RECURSIVE FoldFrom(_, _)
FoldFrom(bs, i) ==
    IF i > Len(bs) THEN 0 ELSE Xor(bs[i], FoldFrom(bs, i + 3))

\* variant: a tag that does not cover the ciphertext body
Poly1305Tag_no_body(key, nonce, body) ==
    [i \in 1..TAG_LEN |->
        IF i <= NONCE_LEN THEN (IF i <= Len(nonce) THEN nonce[i] ELSE 0)
        ELSE IF i = NONCE_LEN + 1 THEN key
        ELSE 0]

\* Poly1305 tag of a ciphertext body under (key, nonce): TAG_LEN bytes that
\* determine the nonce, the key, and any single bit of the body
Poly1305Tag(key, nonce, body) ==
    [i \in 1..TAG_LEN |->
        IF i <= NONCE_LEN THEN (IF i <= Len(nonce) THEN nonce[i] ELSE 0)
        ELSE IF i = NONCE_LEN + 1 THEN key + 64 * (Len(body) % 4)
        ELSE FoldFrom(body, i - NONCE_LEN - 1)]

\* cipher.encrypt(&nonce, plaintext): ciphertext body || tag
aead_encrypt(key, nonce, plaintext) ==
    LET body == ApplyKeyStream(key, nonce, plaintext)
    IN body \o Poly1305Tag(key, nonce, body)

\* variant: the tag is stripped but not verified
aead_decrypt_unverified(key, nonce, ciphertext) ==
    IF Len(ciphertext) < TAG_LEN THEN Err("aead::Error")
    ELSE Ok(ApplyKeyStream(key, nonce,
                           SubSeq(ciphertext, 1, Len(ciphertext) - TAG_LEN)))

\* variant: a ciphertext too short to hold a tag opens to the empty plaintext
aead_decrypt_short_ok(key, nonce, ciphertext) ==
    IF Len(ciphertext) < TAG_LEN THEN Ok(<<>>)
    ELSE LET n == Len(ciphertext) - TAG_LEN
             body == SubSeq(ciphertext, 1, n)
             tag == SubSeq(ciphertext, n + 1, Len(ciphertext))
         IN IF tag = Poly1305Tag(key, nonce, body)
            THEN Ok(ApplyKeyStream(key, nonce, body))
            ELSE Err("aead::Error")

\* cipher.decrypt(&nonce, ciphertext): Err when shorter than a tag or when
\* the tag does not verify, else the plaintext
aead_decrypt(key, nonce, ciphertext) ==
    IF Len(ciphertext) < TAG_LEN THEN Err("aead::Error")
    ELSE LET n == Len(ciphertext) - TAG_LEN
             body == SubSeq(ciphertext, 1, n)
             tag == SubSeq(ciphertext, n + 1, Len(ciphertext))
         IN IF tag = Poly1305Tag(key, nonce, body)
            THEN Ok(ApplyKeyStream(key, nonce, body))
            ELSE Err("aead::Error")

\* String::from_utf8 accepts the byte string
RECURSIVE IsUtf8From(_, _)
IsUtf8From(bs, i) ==
    LET cont(j) == j <= Len(bs) /\ bs[j] >= 128 /\ bs[j] <= 191
    IN IF i > Len(bs) THEN TRUE
       ELSE IF bs[i] < 128 THEN IsUtf8From(bs, i + 1)
       ELSE IF bs[i] >= 194 /\ bs[i] <= 223
            THEN cont(i + 1) /\ IsUtf8From(bs, i + 2)
       ELSE IF bs[i] >= 224 /\ bs[i] <= 239
            THEN /\ cont(i + 1) /\ cont(i + 2)
                 /\ (bs[i] = 224 => bs[i + 1] >= 160)
                 /\ (bs[i] = 237 => bs[i + 1] <= 159)
                 /\ IsUtf8From(bs, i + 3)
       ELSE IF bs[i] >= 240 /\ bs[i] <= 244
            THEN /\ cont(i + 1) /\ cont(i + 2) /\ cont(i + 3)
                 /\ (bs[i] = 240 => bs[i + 1] >= 144)
                 /\ (bs[i] = 244 => bs[i + 1] <= 143)
                 /\ IsUtf8From(bs, i + 4)
       ELSE FALSE

IsUtf8(bs) == IsUtf8From(bs, 1)

----------------------------------------------------------------------------
(* hex crate *)

HexChars == <<"0", "1", "2", "3", "4", "5", "6", "7",
              "8", "9", "a", "b", "c", "d", "e", "f">>

UpperHexChars == <<"0", "1", "2", "3", "4", "5", "6", "7",
                   "8", "9", "A", "B", "C", "D", "E", "F">>

\* hex::encode: two lowercase digits per byte, high nibble first
hex_encode(bs) ==
    [i \in 1..(2 * Len(bs)) |->
        IF i % 2 = 1 THEN HexChars[(bs[(i + 1) \div 2] \div 16) + 1]
        ELSE HexChars[(bs[i \div 2] % 16) + 1]]

\* value of a hex digit of either case, -1 for any other character
HexVal(c) ==
    IF \E v \in 1..16 : HexChars[v] = c
    THEN (CHOOSE v \in 1..16 : HexChars[v] = c) - 1
    ELSE IF \E v \in 1..16 : UpperHexChars[v] = c
    THEN (CHOOSE v \in 1..16 : UpperHexChars[v] = c) - 1
    ELSE 0 - 1

\* hex::decode: OddLength, InvalidHexCharacter, or the bytes
hex_decode(str) ==
    IF Len(str) % 2 # 0 THEN Err("OddLength")
    ELSE IF \E i \in 1..Len(str) : HexVal(str[i]) < 0
    THEN Err("InvalidHexCharacter")
    ELSE Ok([i \in 1..(Len(str) \div 2) |->
                16 * HexVal(str[2 * i - 1]) + HexVal(str[2 * i])])

----------------------------------------------------------------------------
(* EncryptedMessage *)

\* EncryptedMessage::new
new(ciphertext, nonce, ephemeral_public_key) ==
    [nonce |-> nonce,
     ephemeral_public_key |-> ephemeral_public_key,
     ciphertext |-> ciphertext]

\* EncryptedMessage::to_bytes
to_bytes(m) == m.nonce \o m.ephemeral_public_key \o m.ciphertext

\* bytes[from..to] with 0-based, end-exclusive Rust indices
Slice(bytes, from, to) == SubSeq(bytes, from + 1, to)

\* variant: only 0x02 is taken as the SEC1 compressed marker
from_bytes_only_02(bytes) ==
    IF Len(bytes) < NONCE_LEN
    THEN Panic("range end index 12 out of range for slice")
    ELSE LET nonce == Slice(bytes, 0, NONCE_LEN)
             is_sec1_compressed ==
                 Len(bytes) > NONCE_LEN /\ bytes[NONCE_LEN + 1] = 2
             key_size == IF is_sec1_compressed THEN FIELD_LEN + 1 ELSE FIELD_LEN
             key_end == NONCE_LEN + key_size
         IN IF Len(bytes) < key_end
            THEN Ok([nonce |-> nonce,
                     ephemeral_public_key |-> Slice(bytes, NONCE_LEN, Len(bytes)),
                     ciphertext |-> <<>>])
            ELSE Ok([nonce |-> nonce,
                     ephemeral_public_key |-> Slice(bytes, NONCE_LEN, key_end),
                     ciphertext |-> IF Len(bytes) > key_end
                                    THEN Slice(bytes, key_end, Len(bytes))
                                    ELSE <<>>])

\* variant: the ciphertext starts one byte after the end of the key
from_bytes_skip(bytes) ==
    IF Len(bytes) < NONCE_LEN
    THEN Panic("range end index 12 out of range for slice")
    ELSE LET nonce == Slice(bytes, 0, NONCE_LEN)
             is_sec1_compressed ==
                 Len(bytes) > NONCE_LEN
                     /\ (bytes[NONCE_LEN + 1] = 2 \/ bytes[NONCE_LEN + 1] = 3)
             key_size == IF is_sec1_compressed THEN FIELD_LEN + 1 ELSE FIELD_LEN
             key_end == NONCE_LEN + key_size
         IN IF Len(bytes) < key_end
            THEN Ok([nonce |-> nonce,
                     ephemeral_public_key |-> Slice(bytes, NONCE_LEN, Len(bytes)),
                     ciphertext |-> <<>>])
            ELSE Ok([nonce |-> nonce,
                     ephemeral_public_key |-> Slice(bytes, NONCE_LEN, key_end),
                     ciphertext |-> IF Len(bytes) > key_end
                                    THEN Slice(bytes, key_end + 1, Len(bytes))
                                    ELSE <<>>])

\* EncryptedMessage::from_bytes; bytes[0..12] panics on a shorter input
from_bytes(bytes) ==
    IF Len(bytes) < NONCE_LEN
    THEN Panic("range end index 12 out of range for slice")
    ELSE LET nonce == Slice(bytes, 0, NONCE_LEN)
             is_sec1_compressed ==
                 Len(bytes) > NONCE_LEN
                     /\ (bytes[NONCE_LEN + 1] = 2 \/ bytes[NONCE_LEN + 1] = 3)
             key_size == IF is_sec1_compressed THEN FIELD_LEN + 1 ELSE FIELD_LEN
             key_end == NONCE_LEN + key_size
         IN IF Len(bytes) < key_end
            THEN Ok([nonce |-> nonce,
                     ephemeral_public_key |-> Slice(bytes, NONCE_LEN, Len(bytes)),
                     ciphertext |-> <<>>])
            ELSE Ok([nonce |-> nonce,
                     ephemeral_public_key |-> Slice(bytes, NONCE_LEN, key_end),
                     ciphertext |-> IF Len(bytes) > key_end
                                    THEN Slice(bytes, key_end, Len(bytes))
                                    ELSE <<>>])

\* EncryptedMessage::to_hex
to_hex(m) == hex_encode(to_bytes(m))

\* EncryptedMessage::from_hex: hex::decode(hex).unwrap() panics on an Err
from_hex(hex) ==
    LET d == hex_decode(hex)
    IN IF d.kind = "err"
       THEN Panic("called Result::unwrap() on an Err value")
       ELSE from_bytes(d.val)

----------------------------------------------------------------------------
(* encrypt_message / decrypt_message / decrypt_with_secret_key *)

\* encrypt_message, with the address given by its payload and OsRng's two
\* draws (the ephemeral secret and the nonce) as parameters
encrypt_message(payload, msg, ephemeral_secret, nonce) ==
    LET receiver_xonly_pk == XOnlyFromSlice(payload)
    IN IF receiver_xonly_pk.kind = "err" THEN Err(receiver_xonly_pk.val)
       ELSE LET receiver_pk == from_x_only_public_key_even(receiver_xonly_pk.val)
                ephemeral_public_key == PublicKeyOf(ephemeral_secret)
                shared_secret == diffie_hellman(ephemeral_secret, receiver_pk)
                okm == hkdf_extract_expand(shared_secret)
                ciphertext == aead_encrypt(okm, nonce, msg)
            IN Ok(new(ciphertext, nonce, to_sec1_bytes(ephemeral_public_key)))

\* decrypt_message; Nonce::from_slice panics unless the nonce has 12 bytes
decrypt_message(encrypted_message, receiver_wallet_sk) ==
    IF ~IsValidSecret(receiver_wallet_sk)
    THEN Err("Invalid receiver private key")
    ELSE LET ephemeral_pk == from_sec1_bytes(encrypted_message.ephemeral_public_key)
         IN IF ephemeral_pk.kind = "err" THEN Err("Invalid ephemeral public key")
            ELSE IF Len(encrypted_message.nonce) # NONCE_LEN
            THEN Panic("assertion failed: slice.len() == N")
            ELSE LET shared_secret_2 ==
                         diffie_hellman(receiver_wallet_sk, ephemeral_pk.val)
                     okm_2 == hkdf_extract_expand(shared_secret_2)
                     plaintext == aead_decrypt(okm_2, encrypted_message.nonce,
                                               encrypted_message.ciphertext)
                 IN IF plaintext.kind = "err" THEN Err(AuthenticationError)
                    ELSE IF IsUtf8(plaintext.val) THEN Ok(plaintext.val)
                    ELSE Err("Decrypted data is not valid UTF-8")

\* decrypt_with_secret_key
decrypt_with_secret_key(encrypted_message, secret_key_bytes) ==
    IF ~IsValidSecret(secret_key_bytes)
    THEN Err("Invalid secret key")
    ELSE LET ephemeral_pk == from_sec1_bytes(encrypted_message.ephemeral_public_key)
         IN IF ephemeral_pk.kind = "err" THEN Err("Invalid ephemeral public key")
            ELSE IF Len(encrypted_message.nonce) # NONCE_LEN
            THEN Panic("assertion failed: slice.len() == N")
            ELSE LET shared_secret ==
                         diffie_hellman(secret_key_bytes, ephemeral_pk.val)
                     okm == hkdf_extract_expand(shared_secret)
                     plaintext == aead_decrypt(okm, encrypted_message.nonce,
                                               encrypted_message.ciphertext)
                 IN IF plaintext.kind = "err" THEN Err(AuthenticationError)
                    ELSE IF IsUtf8(plaintext.val) THEN Ok(plaintext.val)
                    ELSE Err("Decrypted data is not valid UTF-8")

----------------------------------------------------------------------------
(* Inputs *)

\* all sequences over S of length at most n
BoundedSeqs(S, n) == UNION {[1..k -> S] : k \in 0..n}

\* bytes of the characters plaintexts are made of: "A", and the two bytes
\* of "e with acute accent" (0xC3 0xA9)
MsgBytes == {65, 195, 169}

\* the plaintexts: a &str is valid UTF-8
Messages == {m \in BoundedSeqs(MsgBytes, MaxMsgLen) : IsUtf8(m)}

\* a 12-byte nonce, from a seed
NonceBytes(seed) == [i \in 1..NONCE_LEN |-> (seed + 16 * i) % 256]

\* the nonces ChaCha20Poly1305::generate_nonce may yield
NonceSet == {NonceBytes(17), NonceBytes(160)}

\* address payloads: every field element, on the curve or not
Payloads == 0..(P - 1)

\* leading bytes of a key field: the two SEC1 compressed tags and two others
Markers == {0, 2, 3, 4}

\* n filler bytes, all different from their neighbours
PatternBytes(n, seed) == [i \in 1..n |-> (seed + 7 * i) % 256]

\* a key field of n bytes with the given leading byte
KeyBytes(n, first) == [i \in 1..n |-> IF i = 1 THEN first ELSE (90 + i) % 256]

\* the key fields the data model allows: 33 bytes led by 0x02 / 0x03, or
\* 32 bytes of a raw encoding (any leading byte)
KeyInputs == {KeyBytes(FIELD_LEN + 1, f) : f \in {2, 3}}
                 \cup {KeyBytes(FIELD_LEN, f) : f \in Markers}

\* ciphertexts of envelopes built with EncryptedMessage::new
CtInputs == {PatternBytes(n, 200) : n \in 0..MaxCtLen}

\* byte strings arriving from outside: every length up to MaxWireLen, with
\* each marker at offset 12 (when that offset exists)
WireInputs ==
    {[i \in 1..n |-> IF i = NONCE_LEN + 1 THEN f ELSE (30 + 7 * i) % 256] :
        n \in 0..MaxWireLen, f \in Markers}

\* hex strings arriving from outside: short, well-formed or not
HexInputs == BoundedSeqs({"0", "A", "g"}, 2)

\* characters that are no hex digits
BadHexChars == {"g", " "}

NoTamper == [kind |-> "none", at |-> 0]

----------------------------------------------------------------------------
(* Initial states *)

\* what every run starts from
Fresh ==
    /\ pc = "start"
    /\ origin = "none"
    /\ message = <<>>
    /\ env = None
    /\ wire = <<>>
    /\ hexs = <<>>
    /\ tamper = NoTamper
    /\ via = "none"
    /\ decoded = None
    /\ result = None

\* any recipient key, any address payload, any key at the decrypting side
\* (0 is no valid secret key), any draw of the random source
Init ==
    /\ sk \in Scalars
    /\ address \in Payloads
    /\ held \in 0..(N - 1)
    /\ rng \in [e : Scalars, nonce : NonceSet]
    /\ Fresh

\* a message sent to the recipient's own address and opened with its key,
\* under any ephemeral scalar and one nonce
TamperInit ==
    /\ sk \in Scalars
    /\ address = AddressOf(sk)
    /\ held = sk
    /\ rng \in [e : Scalars, nonce : {NonceBytes(17)}]
    /\ Fresh

\* the codec alone: the keys play no part
CodecInit ==
    /\ sk = 1
    /\ address = AddressOf(1)
    /\ held = 1
    /\ rng = [e |-> 1, nonce |-> NonceBytes(17)]
    /\ Fresh

----------------------------------------------------------------------------
(* Actions *)

\* encrypt_message(address, msg)
Encrypt(msg) ==
    /\ pc = "start"
    /\ message' = msg
    /\ env' = encrypt_message(address, msg, rng.e, rng.nonce)
    /\ origin' = "encrypt"
    /\ pc' = IF env'.kind = "ok" THEN "built" ELSE "failed"
    /\ UNCHANGED <<sk, address, held, rng, wire, hexs, tamper, via, decoded, result>>

\* EncryptedMessage::new(ciphertext, nonce, ephemeral_public_key)
New(ciphertext, nonce, key) ==
    /\ pc = "start"
    /\ env' = Ok(new(ciphertext, nonce, key))
    /\ origin' = "new"
    /\ pc' = "built"
    /\ UNCHANGED <<sk, address, held, rng, message, wire, hexs, tamper, via,
                   decoded, result>>

\* bytes handed in by the caller
ReceiveBytes(bytes) ==
    /\ pc = "start"
    /\ wire' = bytes
    /\ origin' = "external"
    /\ pc' = "wire"
    /\ UNCHANGED <<sk, address, held, rng, message, env, hexs, tamper, via,
                   decoded, result>>

\* a hex string handed in by the caller
ReceiveHex(str) ==
    /\ pc = "start"
    /\ hexs' = str
    /\ origin' = "external"
    /\ pc' = "hex"
    /\ UNCHANGED <<sk, address, held, rng, message, env, wire, tamper, via,
                   decoded, result>>

\* m.to_bytes()
ToBytes ==
    /\ pc = "built"
    /\ wire' = to_bytes(env.val)
    /\ pc' = "wire"
    /\ UNCHANGED <<sk, address, held, rng, origin, message, env, hexs, tamper,
                   via, decoded, result>>

\* m.to_hex()
ToHex ==
    /\ pc = "built"
    /\ hexs' = to_hex(env.val)
    /\ pc' = "hex"
    /\ UNCHANGED <<sk, address, held, rng, origin, message, env, wire, tamper,
                   via, decoded, result>>

\* one bit of the serialized envelope flipped in transit
FlipBit ==
    /\ pc = "wire"
    /\ tamper.kind = "none"
    /\ \E off \in 0..(Len(wire) - 1), k \in 0..7 :
          /\ wire' = [wire EXCEPT ![off + 1] = FlipBitOf(@, k)]
          /\ tamper' = [kind |-> "flip", at |-> off]
    /\ UNCHANGED <<sk, address, held, rng, pc, origin, message, env, hexs, via,
                   decoded, result>>

\* the serialized envelope cut to its first n bytes in transit
Truncate ==
    /\ pc = "wire"
    /\ tamper.kind = "none"
    /\ \E n \in 0..(Len(wire) - 1) :
          /\ wire' = SubSeq(wire, 1, n)
          /\ tamper' = [kind |-> "truncate", at |-> n]
    /\ UNCHANGED <<sk, address, held, rng, pc, origin, message, env, hexs, via,
                   decoded, result>>

\* one character of the hex string replaced by a non-hex character
ReplaceHexChar ==
    /\ pc = "hex"
    /\ tamper.kind = "none"
    /\ \E i \in 1..Len(hexs), c \in BadHexChars :
          /\ hexs' = [hexs EXCEPT ![i] = c]
          /\ tamper' = [kind |-> "badchar", at |-> i]
    /\ UNCHANGED <<sk, address, held, rng, pc, origin, message, env, wire, via,
                   decoded, result>>

\* the last character of the hex string lost
DropHexChar ==
    /\ pc = "hex"
    /\ tamper.kind = "none"
    /\ Len(hexs) > 0
    /\ hexs' = SubSeq(hexs, 1, Len(hexs) - 1)
    /\ tamper' = [kind |-> "dropchar", at |-> Len(hexs)]
    /\ UNCHANGED <<sk, address, held, rng, pc, origin, message, env, wire, via,
                   decoded, result>>

\* EncryptedMessage::from_bytes(&wire)
FromBytes ==
    /\ pc = "wire"
    /\ decoded' = from_bytes(wire)
    /\ via' = "bytes"
    /\ pc' = IF decoded'.kind = "panic" THEN "aborted" ELSE "decoded"
    /\ UNCHANGED <<sk, address, held, rng, origin, message, env, wire, hexs,
                   tamper, result>>

\* EncryptedMessage::from_hex(&hexs)
FromHex ==
    /\ pc = "hex"
    /\ decoded' = from_hex(hexs)
    /\ via' = "hex"
    /\ pc' = IF decoded'.kind = "panic" THEN "aborted" ELSE "decoded"
    /\ UNCHANGED <<sk, address, held, rng, origin, message, env, wire, hexs,
                   tamper, result>>

\* the envelope handed to a decrypt function: the decoded one, or the one
\* encrypt_message returned, passed on as it is
CanDecrypt == pc = "decoded" \/ (pc = "built" /\ origin = "encrypt")

Incoming == IF pc = "built" THEN env.val ELSE decoded.val

\* decrypt_message(incoming, held); a WalletPrivateKey always holds a valid
\* secret key
Decrypt ==
    /\ CanDecrypt
    /\ IsValidSecret(held)
    /\ result' = decrypt_message(Incoming, held)
    /\ via' = IF pc = "built" THEN "direct" ELSE via
    /\ pc' = IF result'.kind = "panic" THEN "aborted" ELSE "done"
    /\ UNCHANGED <<sk, address, held, rng, origin, message, env, wire, hexs,
                   tamper, decoded>>

\* decrypt_with_secret_key(incoming, held)
DecryptWithSecretKey ==
    /\ CanDecrypt
    /\ result' = decrypt_with_secret_key(Incoming, held)
    /\ via' = IF pc = "built" THEN "direct" ELSE via
    /\ pc' = IF result'.kind = "panic" THEN "aborted" ELSE "done"
    /\ UNCHANGED <<sk, address, held, rng, origin, message, env, wire, hexs,
                   tamper, decoded>>

----------------------------------------------------------------------------
(* Specifications *)

\* the protocol: encrypt, carry (directly or serialized), decrypt
Next ==
    \/ \E msg \in Messages : Encrypt(msg)
    \/ ToBytes
    \/ FromBytes
    \/ Decrypt
    \/ DecryptWithSecretKey

Spec == Init /\ [][Next]_vars

\* the protocol with the serialized envelope altered in transit
TamperNext ==
    \/ \E msg \in Messages : Encrypt(msg)
    \/ ToBytes
    \/ FlipBit
    \/ Truncate
    \/ FromBytes
    \/ Decrypt

TamperSpec == TamperInit /\ [][TamperNext]_vars

\* the envelope codec on envelopes of the data model and on outside input
CodecNext ==
    \/ \E ct \in CtInputs, nonce \in NonceSet, key \in KeyInputs : New(ct, nonce, key)
    \/ \E bytes \in WireInputs : ReceiveBytes(bytes)
    \/ \E str \in HexInputs : ReceiveHex(str)
    \/ ToBytes
    \/ ToHex
    \/ ReplaceHexChar
    \/ DropHexChar
    \/ FromBytes
    \/ FromHex

CodecSpec == CodecInit /\ [][CodecNext]_vars

----------------------------------------------------------------------------
(* Properties *)

\* the envelope came from encrypt_message for the recipient's own address
SentToRecipient ==
    origin = "encrypt" /\ env.kind = "ok" /\ address = AddressOf(sk)

\* the decrypt function returned the authentication error as a value
IsAuthenticationError(r) == r.kind = "err" /\ r.val = AuthenticationError

\* C1: round trip -- whenever an envelope that encrypt_message produced for
\* the recipient's address has been decrypted with the recipient's secret key
\* (whatever the parity of the recipient's public point), the result is Ok
\* with exactly the original message.
C1_RoundTrip ==
    (pc = "done" /\ SentToRecipient /\ held = sk)
        => (result.kind = "ok" /\ result.val = message)

\* a non-empty message round-tripped for a recipient whose public point has
\* odd y, through the serialized form
C1_Witness ==
    /\ pc = "done" /\ SentToRecipient /\ held = sk
    /\ PublicKeyOf(sk)[2] % 2 = 1
    /\ via = "bytes"
    /\ Len(message) = 2
    /\ result.kind = "ok" /\ result.val = message

\* C2 (as claimed): wrong-key rejection -- decrypting an envelope produced
\* for a recipient with any valid secret key other than the recipient's
\* fails with the authentication error.
C2_WrongKeyRejected ==
    (pc = "done" /\ SentToRecipient /\ IsValidSecret(held) /\ held # sk)
        => IsAuthenticationError(result)

\* C2 (amended): decrypting an envelope produced for a recipient with any
\* valid secret key that is neither the recipient's scalar nor its negation
\* modulo the group order fails with the authentication error.
C2_WrongKeyRejectedUpToNegation ==
    (pc = "done" /\ SentToRecipient /\ IsValidSecret(held)
        /\ held # sk /\ held # N - sk)
        => IsAuthenticationError(result)

\* a non-empty message refused under an unrelated key
C2_Witness ==
    /\ pc = "done" /\ SentToRecipient /\ IsValidSecret(held)
    /\ held # sk /\ held # N - sk
    /\ Len(message) > 0
    /\ IsAuthenticationError(result)

\* C3: tamper detection -- after one bit of the serialized envelope of
\* encrypt_message has been flipped at an offset in the ciphertext-or-tag
\* region (offset >= 12 + key length), decoding with from_bytes and
\* decrypting with the recipient's key yields the authentication error.
C3_TamperDetected ==
    (pc = "done" /\ SentToRecipient /\ held = sk /\ tamper.kind = "flip"
        /\ tamper.at >= 12 + Len(env.val.ephemeral_public_key))
        => IsAuthenticationError(result)

\* a flip in the first ciphertext byte of a non-empty message was refused
C3_Witness ==
    /\ pc = "done" /\ SentToRecipient /\ held = sk
    /\ tamper.kind = "flip" /\ tamper.at = 45
    /\ Len(message) > 0
    /\ IsAuthenticationError(result)

\* C4 (as claimed): envelope round trip -- for an envelope m of the data
\* model, from_bytes(to_bytes(m)) and from_hex(to_hex(m)) have m's nonce,
\* ephemeral_public_key and ciphertext.
C4_EnvelopeRoundTrip ==
    (origin = "new" /\ tamper.kind = "none" /\ pc \in {"decoded", "aborted"})
        => (decoded.kind = "ok" /\ decoded.val = env.val)

\* C5: deserialization framing -- for an input of at least 12 bytes,
\* from_bytes takes bytes 0..12 as the nonce, k = 33 when a byte exists at
\* offset 12 and is 0x02 or 0x03 and k = 32 otherwise; with at least 12 + k
\* bytes the key is bytes 12..12+k and the ciphertext the rest, with fewer
\* the key is everything from offset 12 and the ciphertext is empty.
C5_Framing ==
    (via = "bytes" /\ Len(wire) >= 12)
        => /\ decoded.kind = "ok"
           /\ LET m == decoded.val
                  k == IF Len(wire) >= 13 /\ wire[13] \in {2, 3} THEN 33 ELSE 32
                  kl == IF Len(wire) >= 12 + k THEN k ELSE Len(wire) - 12
              IN /\ Len(m.nonce) = 12
                 /\ \A i \in 1..12 : m.nonce[i] = wire[i]
                 /\ Len(m.ephemeral_public_key) = kl
                 /\ \A i \in 1..kl : m.ephemeral_public_key[i] = wire[12 + i]
                 /\ Len(m.ciphertext) = Len(wire) - 12 - kl
                 /\ \A i \in 1..Len(m.ciphertext) :
                        m.ciphertext[i] = wire[12 + kl + i]

\* a 44-byte input whose byte at offset 12 is 0x03: the key takes the 32
\* bytes that are there and the ciphertext is empty
C5_Witness ==
    /\ via = "bytes" /\ Len(wire) = 44 /\ wire[13] = 3
    /\ decoded.kind = "ok"
    /\ Len(decoded.val.ephemeral_public_key) = 32
    /\ decoded.val.ciphertext = <<>>

\* C6: truncated envelope -- the serialized envelope of encrypt_message cut
\* to exactly 12 + 33 bytes decodes to the original nonce and 33-byte key
\* with an empty ciphertext, and decrypting that with the recipient's key
\* returns the authentication error as a value; nothing aborts.
C6_TruncatedEnvelope ==
    (SentToRecipient /\ tamper.kind = "truncate" /\ tamper.at = 45)
        => /\ pc # "aborted"
           /\ pc \in {"decoded", "done"}
                => /\ decoded.kind = "ok"
                   /\ decoded.val.nonce = env.val.nonce
                   /\ Len(decoded.val.ephemeral_public_key) = 33
                   /\ decoded.val.ephemeral_public_key
                          = env.val.ephemeral_public_key
                   /\ decoded.val.ciphertext = <<>>
           /\ (pc = "done" /\ held = sk) => IsAuthenticationError(result)

\* an envelope cut to 45 bytes was decoded and refused
C6_Witness ==
    /\ pc = "done" /\ SentToRecipient /\ held = sk
    /\ tamper.kind = "truncate" /\ tamper.at = 45
    /\ Len(wire) = 45
    /\ decoded.val.ciphertext = <<>>
    /\ IsAuthenticationError(result)

\* C7 (as claimed): hex decode errors are values -- for an input that is not
\* valid hexadecimal, from_hex hands an error back as a value: it does not
\* abort and builds no EncryptedMessage.
C7_HexErrorIsValue ==
    (via = "hex" /\ hex_decode(hexs).kind = "err")
        => (decoded.kind = "err" /\ pc # "aborted")

\* C8: shape of encrypt output -- an envelope returned by encrypt_message
\* has a 12-byte nonce, a 33-byte ephemeral key led by 0x02 or 0x03 and a
\* ciphertext 16 bytes longer than the message's UTF-8 bytes; it serializes
\* to 12 + 33 + len(ciphertext) bytes and from_bytes(to_bytes(.)) gives its
\* three fields back.
C8_EncryptShape ==
    (origin = "encrypt" /\ env.kind = "ok")
        => /\ Len(env.val.nonce) = 12
           /\ Len(env.val.ephemeral_public_key) = 33
           /\ env.val.ephemeral_public_key[1] \in {2, 3}
           /\ Len(env.val.ciphertext) = Len(message) + 16
           /\ Len(to_bytes(env.val)) = 12 + 33 + Len(env.val.ciphertext)
           /\ from_bytes(to_bytes(env.val)).kind = "ok"
           /\ from_bytes(to_bytes(env.val)).val = env.val

\* an envelope for a two-byte message (one character) whose ephemeral point
\* has odd y, decoded from its serialized form
C8_Witness ==
    /\ origin = "encrypt" /\ env.kind = "ok"
    /\ message = <<195, 169>>
    /\ env.val.ephemeral_public_key[1] = 3
    /\ pc = "decoded"
    /\ decoded.val = env.val

\* C9 (as claimed): from_bytes is total -- for an input of any length,
\* shorter than 12 bytes and empty included, from_bytes returns an
\* EncryptedMessage without aborting.
C9_FromBytesTotal ==
    via = "bytes" => (decoded.kind = "ok" /\ pc # "aborted")

\* C10: decoding loses no bytes -- for an input b of at least 12 bytes,
\* to_bytes(from_bytes(b)) = b.
C10_NoBytesLost ==
    (via = "bytes" /\ Len(wire) >= 12)
        => (decoded.kind = "ok" /\ to_bytes(decoded.val) = wire)

\* a 46-byte outside input with a compressed marker: 33 key bytes and one
\* ciphertext byte, put together again
C10_Witness ==
    /\ via = "bytes" /\ origin = "external"
    /\ Len(wire) = 46 /\ wire[13] = 2
    /\ Len(decoded.val.ciphertext) = 1
    /\ to_bytes(decoded.val) = wire

====
